---- MODULE Spec2Model ----
(***************************************************************************)
(* A model of the ACS internet-access pipeline:                            *)
(*   - StarSchemaBuilder (src/src/create_star_schema.py): load_data,       *)
(*     create_dimension_tables, save_fact_table, print_schema_structure,   *)
(*     run in that order by create_schema;                                 *)
(*   - the earlier StarSchemaBuilder that reads its definitions from JSON  *)
(*     (src/src/schema/create_star_schema.py);                             *)
(*   - the analysis script (src/src/analyze_weighted_stats.py) and the     *)
(*     TechnologyAccessAnalyzer class                                      *)
(*     (src/src/analysis/analyze_weighted_stats.py).                       *)
(* Python values that may be an int or a str (dimension codes) are the     *)
(* records IntVal(n) / StrVal(s); a str that the code parses or compares   *)
(* is a sequence of one-character strings. Percentages are exact           *)
(* rationals [num, den] (the code computes them in IEEE doubles).          *)
(***************************************************************************)
EXTENDS Integers, Sequences, FiniteSets, TLC

\* ------------------------------------------------------------------ bounds
\* declared codes in the whole codebook
MaxCodes == 2
\* rows of the raw extract read by StarSchemaBuilder.load_data
MaxRows == 2
\* rows of the fact table read by the analysis programs
MaxFactRows == 2

VARIABLES
    stage,       \* position of StarSchemaBuilder.create_schema
    fact_df,     \* StarSchemaBuilder.fact_df
    ipums_vars,  \* StarSchemaBuilder.ipums_vars (<<>> also stands for None)
    dim_files,   \* the dim_<var>.csv files written so far
    fact_file,   \* the fact_acs_2023.csv.zip written by save_fact_table
    console,     \* what create_schema and its stages printed
    program,     \* the entry point an analysis run executes
    data_dir,    \* the star-schema directory that run reads
    groupby_observed,   \* the default of groupby(observed=) in the pandas
                        \* release that run imports
    pc,          \* position of that run
    dim_statefip_csv,   \* the star schema's dim_statefip.csv, if it exists
    fact_csv,           \* the rows read from the star schema's fact table
    internet_data,      \* main(): the prepared fact table
    income_buckets,     \* what create_income_buckets returned to line 127
    educ_dim,           \* TechnologyAccessAnalyzer.educ_dim
    educ_stats_df,      \* what analyze_by_education returned
    results_csv,        \* the two result tables save_results wrote
    dimension_tables,   \* main(): the dimension tables by name
    access_stats,       \* analyze_dimension('statefip'): the frame of line 267
    analysis_results,   \* main(): results_df by dimension name
    valid_internet,     \* TechnologyAccessAnalyzer.valid_internet
    valid_smartphone,   \* TechnologyAccessAnalyzer.valid_smartphone
    state_dim,          \* TechnologyAccessAnalyzer.state_dim
    state_stats_df,     \* the frame analyze_by_state returns
    raised              \* the exception that ended the run, or "none"

schema_vars == <<stage, fact_df, ipums_vars, dim_files, fact_file, console>>
stats_vars == <<program, data_dir, groupby_observed, pc, dim_statefip_csv, fact_csv, internet_data,
                income_buckets,
                dimension_tables, access_stats, analysis_results, valid_internet, valid_smartphone, state_dim,
                state_stats_df, educ_dim, educ_stats_df, results_csv, raised>>
vars == <<schema_vars, stats_vars>>

\* ----------------------------------------------------------- Python values
IntVal(n) == [t |-> "int", n |-> n, s |-> <<>>]
StrVal(s) == [t |-> "str", n |-> 0, s |-> s]

SeqToSet(q) == {q[i] : i \in DOMAIN q}

\* characters the model's strings are made of, in code-point order
Chars == <<" ", "+", "-", "0", "1", "2", "3", "4", "5", "6", "7", "8", "9",
           "A", "B", "_">>
CharOrd(c) == CHOOSE i \in DOMAIN Chars : Chars[i] = c
DigitChars == <<"0", "1", "2", "3", "4", "5", "6", "7", "8", "9">>
IsDigit(c) == c \in SeqToSet(DigitChars)
DigitVal(c) == (CHOOSE i \in DOMAIN DigitChars : DigitChars[i] = c) - 1

RECURSIVE LStrip(_)
LStrip(s) == IF s # <<>> /\ Head(s) = " " THEN LStrip(Tail(s)) ELSE s
RECURSIVE RStrip(_)
RStrip(s) ==
    IF s # <<>> /\ s[Len(s)] = " " THEN RStrip(SubSeq(s, 1, Len(s) - 1)) ELSE s

\* digit ("_"? digit)* : the body of a Python integer literal accepted by int()
WellFormedDigits(s) ==
    /\ s # <<>>
    /\ IsDigit(s[1])
    /\ IsDigit(s[Len(s)])
    /\ \A i \in DOMAIN s : IsDigit(s[i]) \/ s[i] = "_"
    /\ \A i \in 1..(Len(s) - 1) : ~(s[i] = "_" /\ s[i + 1] = "_")

RECURSIVE DigitsValue(_, _)
DigitsValue(s, acc) ==
    IF s = <<>> THEN acc
    ELSE IF Head(s) = "_" THEN DigitsValue(Tail(s), acc)
    ELSE DigitsValue(Tail(s), 10 * acc + DigitVal(Head(s)))

\* Python's int(str): [ok |-> FALSE] stands for ValueError
PyInt(s) ==
    LET t == RStrip(LStrip(s))
        signed == t # <<>> /\ t[1] \in {"+", "-"}
        body == IF signed THEN Tail(t) ELSE t
        mag == DigitsValue(body, 0)
    IN  IF WellFormedDigits(body)
        THEN [ok |-> TRUE, n |-> IF signed /\ t[1] = "-" THEN 0 - mag ELSE mag]
        ELSE [ok |-> FALSE, n |-> 0]

\* str(n) of a non-negative int, as used by the f-string of line 169
RECURSIVE PyStr(_)
PyStr(n) ==
    IF n < 10 THEN DigitChars[n + 1]
    ELSE PyStr(n \div 10) \o DigitChars[(n % 10) + 1]

\* s < t for two Python str (lexicographic by code point)
RECURSIVE StrLess(_, _)
StrLess(s, t) ==
    IF t = <<>> THEN FALSE
    ELSE IF s = <<>> THEN TRUE
    ELSE IF Head(s) = Head(t) THEN StrLess(Tail(s), Tail(t))
    ELSE CharOrd(Head(s)) < CharOrd(Head(t))

\* a <= b for two codes of the same Python type
CodeLeq(a, b) ==
    IF a.t = "int" THEN a.n <= b.n ELSE a.s = b.s \/ StrLess(a.s, b.s)

\* sorted(S) for a set of ints
RECURSIVE SortedInts(_)
SortedInts(S) ==
    IF S = {} THEN <<>>
    ELSE LET m == CHOOSE x \in S : \A y \in S : x <= y
         IN  <<m>> \o SortedInts(S \ {m})

\* --------------------------------------------------- StarSchemaBuilder
MEASURE_VARS == <<"PERWT", "AGE", "HHINCOME", "INCTOT">>
EXCLUDE_VARS == <<"PERNUM", "YEAR">>

NoFrame == [columns |-> <<>>, rows |-> <<>>]

\* the columns that need a dimension table, in column order
dim_vars(df) ==
    SelectSeq(df.columns,
              LAMBDA col : col \notin SeqToSet(MEASURE_VARS)
                           /\ col \notin SeqToSet(EXCLUDE_VARS))

\* int(code), keeping the str when int() raises ValueError
code_val(code) ==
    IF PyInt(code).ok THEN IntVal(PyInt(code).n) ELSE StrVal(code)

\* one entry per declared code, in the codebook's order
declared_dim_data(var_info) ==
    [i \in DOMAIN var_info.codes |->
        [code |-> code_val(var_info.codes[i].key),
         value |-> var_info.codes[i].label,
         desc |-> var_info.desc]]

actual_values(df, var_name) ==
    {IntVal(df.rows[i][var_name]) : i \in DOMAIN df.rows}

defined_values(data) == {data[i].code : i \in DOMAIN data}

\* mutant: the declared codes are not subtracted from the observed ones
missing_values_all(df, var_name, data) == actual_values(df, var_name)

missing_values(df, var_name, data) ==
    actual_values(df, var_name) \ defined_values(data)

undefined_label(val) == "Undefined code: " \o PyStr(val)

\* the entries appended for the values found in the data only
missing_dim_data(df, var_name, var_info, data) ==
    LET vals == SortedInts({m.n : m \in missing_values(df, var_name, data)})
    IN  [i \in DOMAIN vals |->
            [code |-> IntVal(vals[i]),
             value |-> undefined_label(vals[i]),
             desc |-> var_info.desc]]

MixedTypes(data) ==
    \E i, j \in DOMAIN data : data[i].code.t # data[j].code.t

\* the orders of the index set rest that are ascending by code; entries with
\* equal codes may come out in any order (the default sort kind is quicksort)
RECURSIVE SortOrders(_, _)
SortOrders(data, rest) ==
    IF rest = {} THEN {<<>>}
    ELSE UNION {{<<i>> \o tl : tl \in SortOrders(data, rest \ {i})} :
                i \in {j \in rest :
                         \A k \in rest : CodeLeq(data[j].code, data[k].code)}}

\* DataFrame.sort_values(var_name): the possible results
sort_values(data) ==
    {[i \in DOMAIN data |-> data[ord[i]]] : ord \in SortOrders(data, DOMAIN data)}

\* lines 139-175 for one variable: the possible outcomes. exc is the
\* exception that leaves the loop ("none" when the table is saved).
build_dim_table(df, var_name, var_info) ==
    LET declared == declared_dim_data(var_info)
        all == declared \o missing_dim_data(df, var_name, var_info, declared)
    IN  IF declared = <<>>
        THEN {[exc |-> "KeyError", table |-> <<>>]}
        ELSE IF MixedTypes(all)
        THEN {[exc |-> "TypeError", table |-> <<>>]}
        ELSE {[exc |-> "none", table |-> tb] : tb \in sort_values(all)}

\* the loop of create_dimension_tables from the i-th dimension variable on
RECURSIVE dim_loop(_, _, _, _, _)
dim_loop(df, defs, i, files, out) ==
    LET names == dim_vars(df)
    IN  IF i > Len(names) THEN {[files |-> files, exc |-> "none", out |-> out]}
        ELSE IF names[i] \notin DOMAIN defs
        THEN dim_loop(df, defs, i + 1, files,
                      Append(out, <<"Warning: not found in IPUMS definitions",
                                    names[i]>>))
        ELSE UNION {
            IF r.exc # "none"
            THEN {[files |-> files, exc |-> r.exc, out |-> out]}
            ELSE dim_loop(df, defs, i + 1,
                          [v \in DOMAIN files \cup {names[i]} |->
                              IF v = names[i] THEN r.table ELSE files[v]],
                          Append(out, <<"Saved", names[i]>>))
            : r \in build_dim_table(df, names[i], defs[names[i]])}

\* mutant: an exception of the loop is swallowed and the run goes on
create_dimension_tables_swallow(df, defs) ==
    {[files |-> r.files, exc |-> "none", out |-> r.out] :
        r \in dim_loop(df, defs, 1, <<>>, <<>>)}

create_dimension_tables(df, defs) == dim_loop(df, defs, 1, <<>>, <<>>)

\* mutant: only the first excluded variable is dropped
drop_excluded_first(df) ==
    LET keep == SelectSeq(df.columns, LAMBDA col : col # EXCLUDE_VARS[1])
    IN  [columns |-> keep,
         rows |-> [i \in DOMAIN df.rows |->
                      [col \in SeqToSet(keep) |-> df.rows[i][col]]]]

\* the fact table without the excluded columns
drop_excluded(df) ==
    LET keep == SelectSeq(df.columns, LAMBDA col : col \notin SeqToSet(EXCLUDE_VARS))
    IN  [columns |-> keep,
         rows |-> [i \in DOMAIN df.rows |->
                      [col \in SeqToSet(keep) |-> df.rows[i][col]]]]

\* ------------------------------------------------------------- inputs
DimNames == {"STATEFIP", "EDUC"}
\* code values a fact column holds
FactCodes(col) == IF col = "STATEFIP" THEN 1..3 ELSE 1..2
\* the values of the other columns are not read by the schema builder
OtherValue(col) ==
    CASE col = "YEAR" -> 2023
      [] col = "PERNUM" -> 1
      [] col = "PERWT" -> 100
      [] col = "AGE" -> 30
      [] col = "HHINCOME" -> 50000
      [] OTHER -> 20000

FactLayouts ==
    {<<"YEAR", "PERNUM", "STATEFIP", "EDUC", "PERWT", "AGE", "HHINCOME", "INCTOT">>,
     <<"YEAR", "EDUC", "STATEFIP", "PERWT", "AGE", "INCTOT">>}

RowOf(st, ed) ==
    [col \in {"YEAR", "PERNUM", "STATEFIP", "EDUC", "PERWT", "AGE", "HHINCOME",
              "INCTOT"} |->
        IF col = "STATEFIP" THEN st ELSE IF col = "EDUC" THEN ed
        ELSE OtherValue(col)]

FrameOf(layout, codes) ==
    [columns |-> layout,
     rows |-> [i \in DOMAIN codes |->
                  [col \in SeqToSet(layout) |-> RowOf(codes[i][1], codes[i][2])[col]]]]

CodePairs == FactCodes("STATEFIP") \X FactCodes("EDUC")

RECURSIVE SeqsUpTo(_, _)
SeqsUpTo(S, n) ==
    IF n = 0 THEN {<<>>}
    ELSE LET shorter == SeqsUpTo(S, n - 1)
         IN  shorter \cup {Append(q, x) : q \in {r \in shorter : Len(r) = n - 1}, x \in S}

\* the extract of the spec's second scenario: codes 1, 2, 3 observed
ScenarioRows == <<<<1, 1>>, <<2, 1>>, <<3, 2>>>>

FactFrames ==
    {FrameOf(layout, codes) :
        layout \in FactLayouts, codes \in SeqsUpTo(CodePairs, MaxRows) \cup {ScenarioRows}}

\* code keys as they stand in a codebook
CodeKeys == {<<"1">>, <<"2">>, <<"0", "1">>, <<"A">>}
CodeLabels == <<"Yes", "No", "Maybe", "Other">>
LabelAt(i) == IF i <= Len(CodeLabels) THEN CodeLabels[i] ELSE "Label " \o PyStr(i)
Description(var_name) ==
    IF var_name = "STATEFIP" THEN "State (FIPS code)" ELSE "Educational attainment"

\* the key lists (dict keys are distinct) of at most n declared codes
KeyLists(n) == {q \in SeqsUpTo(CodeKeys, n) : \A i, j \in DOMAIN q : q[i] = q[j] => i = j}

RECURSIVE TotalLen(_, _)
TotalLen(f, D) ==
    IF D = {} THEN 0
    ELSE LET v == CHOOSE x \in D : TRUE IN Len(f[v]) + TotalLen(f, D \ {v})

VarInfo(var_name, keys) ==
    [desc |-> Description(var_name),
     codes |-> [i \in DOMAIN keys |-> [key |-> keys[i], label |-> LabelAt(i)]]]

\* the codebooks: any subset of the dimension variables defined
Codebooks ==
    UNION {{[v \in D |-> VarInfo(v, kl[v])] :
                kl \in {f \in [D -> KeyLists(MaxCodes)] : TotalLen(f, D) <= MaxCodes}} :
           D \in SUBSET DimNames}

\* ------------------------------------------------------- analysis: values
RECURSIVE GCD(_, _)
GCD(a, b) == IF b = 0 THEN a ELSE GCD(b, a % b)

\* the non-negative rational n / d, d > 0, in lowest terms
Rat(n, d) == LET g == GCD(n, d) IN [num |-> n \div g, den |-> d \div g]
RatLess(a, b) == a.num * b.den < b.num * a.den
RatLeq(a, b) == a.num * b.den <= b.num * a.den

\* a missing value (NaN) or a present one
Null == [isnull |-> TRUE, v |-> ""]
NotNull(v) == [isnull |-> FALSE, v |-> v]
NullCode == [isnull |-> TRUE, v |-> 0]
Code(n) == [isnull |-> FALSE, v |-> n]

\* Series.sum() of column col over a sequence of rows
RECURSIVE SumOf(_, _)
SumOf(rows, col) ==
    IF rows = <<>> THEN 0 ELSE Head(rows)[col] + SumOf(Tail(rows), col)

\* df[df[col] == val] and df[df[col] != val]: row order and index are kept
RowsWhere(rows, col, val) == SelectSeq(rows, LAMBDA r : r[col] = val)
RowsWhereNot(rows, col, val) == SelectSeq(rows, LAMBDA r : r[col] # val)

\* ------------------------------------- analyze_weighted_stats.py (script)
\* mutant: the records with the missing code are kept
valid_internet_records_all(rows) == rows

\* line 115: the records whose CINETHH is not the missing code 9
valid_internet_records(rows) == RowsWhereNot(rows, "CINETHH", 9)

\* a cell of a categorical column with the categories of its dtype
\* (NoCategory is its NaN) and a cell of a column of plain strings
Category(label, categories) ==
    [isnull |-> FALSE, v |-> label, categories |-> categories]
NoCategory(categories) == [isnull |-> TRUE, v |-> "", categories |-> categories]
Text(label) == [isnull |-> FALSE, v |-> label, categories |-> <<>>]

\* bin edges: a number, -np.inf or np.inf
Edge(n) == [inf |-> 0, v |-> n]
NegInf == [inf |-> 0 - 1, v |-> 0]
PosInf == [inf |-> 1, v |-> 0]
EdgeBelow(e, x) == e.inf < 0 \/ (e.inf = 0 /\ e.v < x)
EdgeNotBelow(e, x) == e.inf > 0 \/ (e.inf = 0 /\ x <= e.v)

\* pd.cut(x, bins=bins, labels=labels) for one value: the intervals are
\* (bins[k], bins[k+1]], the lowest edge is not included, and a value in no
\* interval gives NaN
cut(x, bins, labels) ==
    LET hits == {k \in DOMAIN labels :
                    EdgeBelow(bins[k], x) /\ EdgeNotBelow(bins[k + 1], x)}
    IN  IF hits = {} THEN NoCategory(labels)
        ELSE Category(labels[CHOOSE k \in hits : TRUE], labels)

\* lines 118-119
age_bins == <<Edge(0), Edge(18), Edge(25), Edge(35), Edge(50), Edge(65), Edge(100)>>
age_labels == <<"0-18", "19-25", "26-35", "36-50", "51-65", "65+">>

\* lines 120-124: the AGE_BUCKET of one age
age_bucket(age) == cut(age, age_bins, age_labels)

\* line 38
n_quantiles == 7
\* lines 47-55
quantile_labels ==
    <<"Very Low Income", "Low Income", "Lower Middle", "Middle", "Upper Middle",
      "High", "Very High">>
\* mutant: the band of 'No Income' reaches up to 1
fallback_bins_from_one ==
    <<NegInf, Edge(1), Edge(20000), Edge(40000), Edge(60000), Edge(100000), PosInf>>
\* lines 73-74
fallback_bins ==
    <<NegInf, Edge(0), Edge(20000), Edge(40000), Edge(60000), Edge(100000), PosInf>>
fallback_labels == <<"No Income", "Very Low", "Low", "Middle", "High", "Very High">>

\* Series.clip(lower=lower)
clip(xs, lower) == [i \in DOMAIN xs |-> IF xs[i] < lower THEN lower ELSE xs[i]]

\* the values of a sequence in ascending order
RECURSIVE SortedSeq(_)
SortedSeq(xs) ==
    IF xs = <<>> THEN <<>>
    ELSE LET m == CHOOSE i \in DOMAIN xs : \A j \in DOMAIN xs : xs[i] <= xs[j]
         IN  <<xs[m]>> \o SortedSeq([i \in 1..(Len(xs) - 1) |->
                                        IF i < m THEN xs[i] ELSE xs[i + 1]])

\* q times the k/q quantile of the ascending values xs (linear interpolation
\* between the two nearest ranks, as Series.quantile computes it)
quantile_times(xs, k, q) ==
    LET pos == (Len(xs) - 1) * k
        lo == pos \div q
        fr == pos % q
    IN  q * xs[lo + 1] + (IF fr = 0 THEN 0 ELSE (xs[lo + 2] - xs[lo + 1]) * fr)

\* pd.qcut(values, q, labels, duplicates='drop'): the edges are the quantiles
\* with repeated edges dropped; ValueError when the labels are not one fewer
\* than the edges that remain; else each value gets the label of the first
\* interval whose upper edge is not below it
qcut(values, q, labels) ==
    LET xs == SortedSeq(values)
        edges == {quantile_times(xs, k, q) : k \in 0..q}
    IN  IF Cardinality(edges) # Len(labels) + 1
        THEN [exc |-> "ValueError", values |-> <<>>]
        ELSE [exc |-> "none",
              values |-> [i \in DOMAIN values |->
                  Category(labels[CHOOSE k \in 1..q :
                               /\ q * values[i] <= quantile_times(xs, k, q)
                               /\ \A j \in 1..(k - 1) :
                                     q * values[i] > quantile_times(xs, j, q)],
                           labels)]]

\* mutant: a categorical series takes any value and widens its categories
categorical_setitem_widen(result, mask, categories, values) ==
    [exc |-> "none",
     categories |-> result.categories \cup categories,
     values |-> [i \in DOMAIN result.values |->
                    IF i \in mask THEN values[i] ELSE result.values[i]]]

\* result[mask] = value on a categorical series: nothing happens for an empty
\* mask; a value whose categories are not the categories of the series raises
\* TypeError ("Cannot setitem on a Categorical with a new category")
categorical_setitem(result, mask, categories, values) ==
    IF mask = {}
    THEN [exc |-> "none", categories |-> result.categories,
          values |-> result.values]
    ELSE IF categories # result.categories
    THEN [exc |-> "TypeError", categories |-> result.categories,
          values |-> result.values]
    ELSE [exc |-> "none", categories |-> result.categories,
          values |-> [i \in DOMAIN result.values |->
                         IF i \in mask THEN values[i] ELSE result.values[i]]]

\* mutant: a fallback without the band of the non-positive values
fallback_cut_positive(income_data) ==
    [i \in DOMAIN income_data |->
        cut(income_data[i], Tail(fallback_bins), Tail(fallback_labels))]

\* lines 71-75: pd.cut over the fixed dollar bands
fallback_cut(income_data) ==
    [i \in DOMAIN income_data |->
        cut(income_data[i], fallback_bins, fallback_labels)]

\* mutant: the series is clipped in place, so the caller sees the clipped
\* values
caller_series_clipped(income_data) == clip(income_data, 0)

\* line 34: the function works on a copy; the series of the caller keeps its
\* values
caller_series(income_data) == income_data

\* lines 33-75. path tells how the labels were made ("no_income": line 66,
\* "quantile": line 64, "fallback": lines 71-75), log holds the
\* logging.error record of line 69, values the labels by position, and
\* income_data the series of the caller after the call.
create_income_buckets(income_data) ==
    LET clipped == clip(income_data, 0)
        positive_mask == {i \in DOMAIN clipped : clipped[i] > 0}
        zero_mask == {i \in DOMAIN clipped : clipped[i] = 0}
        positive == SelectSeq(clipped, LAMBDA x : x > 0)
        rank(i) == Cardinality({j \in positive_mask : j <= i})
        buckets == qcut(positive, n_quantiles, quantile_labels)
        result == [categories |-> {},
                   values |-> [i \in DOMAIN clipped |-> NoCategory(<<>>)]]
        with_zero == categorical_setitem(
                         result, zero_mask, {"No Income"},
                         [i \in DOMAIN clipped |->
                             Category("No Income", <<"No Income">>)])
        with_positive == categorical_setitem(
                             with_zero, positive_mask, SeqToSet(quantile_labels),
                             [i \in DOMAIN clipped |->
                                 IF i \in positive_mask
                                 THEN buckets.values[rank(i)]
                                 ELSE NoCategory(quantile_labels)])
        exc == IF buckets.exc # "none" THEN buckets.exc
               ELSE IF with_zero.exc # "none" THEN with_zero.exc
               ELSE with_positive.exc
    IN  IF positive_mask = {}
        THEN [path |-> "no_income", log |-> <<>>,
              values |-> [i \in DOMAIN clipped |-> Text("No Income")],
              income_data |-> caller_series(income_data)]
        ELSE IF exc = "none"
        THEN [path |-> "quantile", log |-> <<>>,
              values |-> with_positive.values,
              income_data |-> caller_series(income_data)]
        ELSE [path |-> "fallback",
              log |-> <<<<"Error creating income buckets", exc>>>>,
              values |-> fallback_cut(clipped),
              income_data |-> caller_series(income_data)]

\* np.average(x == 1, weights=w) over the rows of one group;
\* [ok |-> FALSE] stands for ZeroDivisionError (the weights sum to zero)
np_average(rows, weight_col, access_col) ==
    IF SumOf(rows, weight_col) = 0
    THEN [ok |-> FALSE, avg |-> Rat(0, 1)]
    ELSE [ok |-> TRUE,
          avg |-> Rat(SumOf(RowsWhere(rows, access_col, 1), weight_col),
                      SumOf(rows, weight_col))]

\* the group keys of groupby(group_col), ascending
group_keys(rows, group_col) ==
    SortedInts({rows[i][group_col] : i \in DOMAIN rows})

\* lines 155-164: one record per group, in group-key order
grouped_stats(rows, group_col, weight_col, access_col) ==
    LET keys == group_keys(rows, group_col)
    IN  [i \in DOMAIN keys |->
            LET grp == RowsWhere(rows, group_col, keys[i])
                avg == np_average(grp, weight_col, access_col).avg
            IN  [dimension_value |-> keys[i],
                 population_estimate |-> SumOf(grp, weight_col),
                 internet_percentage |-> Rat(100 * avg.num, avg.den)]]

\* the orders of the index set rest that are descending by internet_percentage;
\* rows with equal percentages may come out in any order (quicksort)
RECURSIVE DescendingOrders(_, _)
DescendingOrders(stats, rest) ==
    IF rest = {} THEN {<<>>}
    ELSE UNION {{<<i>> \o tl : tl \in DescendingOrders(stats, rest \ {i})} :
                i \in {j \in rest :
                         \A k \in rest : RatLeq(stats[k].internet_percentage,
                                                stats[j].internet_percentage)}}

\* sort_values('internet_percentage', ascending=False): the possible results
sort_by_percentage(stats) ==
    {[i \in DOMAIN stats |-> stats[ord[i]]] :
        ord \in DescendingOrders(stats, DOMAIN stats)}

\* the other coded columns of the fact table that main() groups by; in the
\* fact tables considered every person has the code 1
OtherCodes ==
    [REGION |-> 1, EDUC |-> 1, RACE |-> 1, SEX |-> 1, EMPSTAT |-> 1,
     LANGUAGE |-> 1, DIFFEYE |-> 1, DIFFSENS |-> 1, DIFFCARE |-> 1, DIFFREM |-> 1]

\* the columns of a prepared frame; a frame without rows has the columns of
\* the fact table and the two derived ones
frame_columns(rows) ==
    IF rows # <<>> THEN DOMAIN rows[1]
    ELSE DOMAIN OtherCodes
         \cup {"index", "STATEFIP", "PERWT", "CINETHH", "CISMRTPHN", "AGE", "INCTOT",
               "AGE_BUCKET", "INCTOT_BUCKET"}

\* the categories of a bucket column, <<>> for a column of plain strings. The
\* column of an empty frame is the result of pd.cut (AGE_BUCKET) or of
\* line 66 (INCTOT_BUCKET, plain strings)
column_categories(rows, group_col) ==
    IF rows # <<>> THEN rows[1][group_col].categories
    ELSE IF group_col = "AGE_BUCKET" THEN age_labels ELSE <<>>

\* the group keys of groupby on a bucket column. Rows whose key is NaN belong
\* to no group. A categorical column gives its categories in their order:
\* the ones that occur when observed, all of them otherwise. A column of
\* plain strings (line 66) holds one label.
bucket_keys(rows, group_col, observed) ==
    LET cats == column_categories(rows, group_col)
        seen == {rows[i][group_col].v :
                    i \in {j \in DOMAIN rows : ~rows[j][group_col].isnull}}
    IN  IF cats = <<>>
        THEN IF seen = {} THEN <<>> ELSE <<CHOOSE v \in seen : TRUE>>
        ELSE IF observed THEN SelectSeq(cats, LAMBDA c : c \in seen)
        ELSE cats

\* the rows of the group of one bucket label
BucketRows(rows, group_col, label) ==
    SelectSeq(rows, LAMBDA r : ~r[group_col].isnull /\ r[group_col].v = label)

\* lines 155-166 for a bucket column; the lambda of line 157 is called for
\* every key, also for a category without rows
bucketed_stats(rows, group_col, weight_col, access_col, observed) ==
    LET keys == bucket_keys(rows, group_col, observed)
        stats == [i \in DOMAIN keys |->
            LET grp == BucketRows(rows, group_col, keys[i])
                avg == np_average(grp, weight_col, access_col).avg
            IN  [dimension_value |-> keys[i],
                 population_estimate |-> SumOf(grp, weight_col),
                 internet_percentage |-> Rat(100 * avg.num, avg.den)]]
    IN  IF \E i \in DOMAIN keys :
                   ~np_average(BucketRows(rows, group_col, keys[i]),
                               weight_col, access_col).ok
        THEN {[exc |-> "ZeroDivisionError", rows |-> <<>>]}
        ELSE {[exc |-> "none", rows |-> st] : st \in sort_by_percentage(stats)}

\* the possible outcomes of calculate_weighted_access_stats. groupby raises
\* KeyError for a column the frame does not have (line 155), and keeps the
\* categories without rows unless observed=True is its default
calculate_weighted_access_stats(rows, group_col, weight_col, access_col) ==
    LET keys == group_keys(rows, group_col)
    IN  IF group_col \notin frame_columns(rows)
        THEN {[exc |-> "KeyError", rows |-> <<>>]}
        ELSE IF group_col \in {"AGE_BUCKET", "INCTOT_BUCKET"}
        THEN bucketed_stats(rows, group_col, weight_col, access_col,
                            groupby_observed)
        ELSE IF \E i \in DOMAIN keys :
              ~np_average(RowsWhere(rows, group_col, keys[i]),
                          weight_col, access_col).ok
        THEN {[exc |-> "ZeroDivisionError", rows |-> <<>>]}
        ELSE {[exc |-> "none", rows |-> st] :
                 st \in sort_by_percentage(
                            grouped_stats(rows, group_col, weight_col, access_col))}

\* a statistics row with the two columns a merge adds
Labelled(st, code, label) ==
    [dimension_value |-> st.dimension_value,
     population_estimate |-> st.population_estimate,
     internet_percentage |-> st.internet_percentage,
     dim_code |-> code, dim_value |-> label]

\* mutant: an inner join, which drops a row without a dimension entry
LeftJoinRow_inner(st, dim_rows) ==
    LET hits == SelectSeq(dim_rows, LAMBDA d : d.code = st.dimension_value)
    IN  [i \in DOMAIN hits |->
            Labelled(st, Code(hits[i].code), NotNull(hits[i].value))]

\* the rows a left join gives for one statistics row
LeftJoinRow(st, dim_rows) ==
    LET hits == SelectSeq(dim_rows, LAMBDA d : d.code = st.dimension_value)
    IN  IF hits = <<>> THEN <<Labelled(st, NullCode, Null)>>
        ELSE [i \in DOMAIN hits |->
                 Labelled(st, Code(hits[i].code), NotNull(hits[i].value))]

RECURSIVE LeftJoin(_, _)
LeftJoin(stats, dim_rows) ==
    IF stats = <<>> THEN <<>>
    ELSE LeftJoinRow(Head(stats), dim_rows) \o LeftJoin(Tail(stats), dim_rows)

NoTable == [value_col |-> FALSE, rows |-> <<>>]

\* lines 179-192: a frame [merged, rows]; merged tells whether the two
\* dimension columns were added
merge_dimension_descriptions(stats, dim_table, dim_name) ==
    IF dim_name \notin {"AGE_BUCKET", "INCTOT_BUCKET"} /\ dim_table.value_col
    THEN [merged |-> TRUE, rows |-> LeftJoin(stats, dim_table.rows)]
    ELSE [merged |-> FALSE,
          rows |-> [i \in DOMAIN stats |-> Labelled(stats[i], NullCode, Null)]]

\* dim_name.upper() for the names of lines 322-326
upper(dim_name) ==
    CASE dim_name = "statefip" -> "STATEFIP"
      [] dim_name = "region" -> "REGION"
      [] dim_name = "educ" -> "EDUC"
      [] dim_name = "race" -> "RACE"
      [] dim_name = "sex" -> "SEX"
      [] dim_name = "empstat" -> "EMPSTAT"
      [] dim_name = "language" -> "LANGUAGE"
      [] dim_name = "diffeye" -> "DIFFEYE"
      [] dim_name = "diffsens" -> "DIFFSENS"
      [] dim_name = "diffcare" -> "DIFFCARE"
      [] dim_name = "diffrem" -> "DIFFREM"
      [] OTHER -> dim_name

\* line 264: the column analyze_dimension groups by
group_col_of(dim_name) ==
    IF dim_name \in {"AGE_BUCKET", "INCTOT_BUCKET"} THEN dim_name
    ELSE upper(dim_name)

\* the possible outcomes of analyze_dimension
analyze_dimension(rows, dim_table, dim_name) ==
    {[exc |-> r.exc,
      stats |-> r.rows,
      frame |-> IF r.exc = "none"
                THEN merge_dimension_descriptions(r.rows, dim_table, dim_name)
                ELSE [merged |-> FALSE, rows |-> <<>>]] :
        r \in calculate_weighted_access_stats(rows, group_col_of(dim_name),
                                              "PERWT", "CINETHH")}

\* dimension_tables.get(dim_name, pd.DataFrame())
table_or_empty(tables, dim_name) ==
    IF dim_name \in DOMAIN tables THEN tables[dim_name] ELSE NoTable

\* --------------------------- analysis/analyze_weighted_stats.py (analyzer)
\* lines 78-82; the early return of 0 when the weights sum to zero
calculate_weighted_percentage(rows, weight_col, condition_col, condition_value) ==
    LET total_weight == SumOf(rows, weight_col)
        condition_weight == SumOf(RowsWhere(rows, condition_col, condition_value),
                                  weight_col)
    IN  IF total_weight = 0 THEN Rat(0, 1)
        ELSE Rat(100 * condition_weight, total_weight)

\* lines 89-107: one record per state code of state_dim that has valid rows
\* for both conditions, in the order of state_dim
RECURSIVE state_stats(_, _, _)
state_stats(codes, internet, smartphone) ==
    IF codes = <<>> THEN <<>>
    ELSE LET state_internet == RowsWhere(internet, "STATEFIP", Head(codes))
             state_smartphone == RowsWhere(smartphone, "STATEFIP", Head(codes))
             rest == state_stats(Tail(codes), internet, smartphone)
         IN  IF state_internet # <<>> /\ state_smartphone # <<>>
             THEN <<[STATEFIP |-> Head(codes),
                     internet_percentage |->
                         calculate_weighted_percentage(state_internet, "PERWT",
                                                       "CINETHH", 1),
                     smartphone_percentage |->
                         calculate_weighted_percentage(state_smartphone, "PERWT",
                                                       "CISMRTPHN", 1),
                     population_estimate |-> SumOf(state_internet, "PERWT"),
                     STATEFIP_value |-> Null]>> \o rest
             ELSE rest

\* pd.merge(state_stats_df, state_dim, on='STATEFIP', how='left')
RECURSIVE merge_state_names(_, _)
merge_state_names(stats, dim_rows) ==
    IF stats = <<>> THEN <<>>
    ELSE LET hits == SelectSeq(dim_rows, LAMBDA d : d.code = Head(stats).STATEFIP)
         IN  (IF hits = <<>> THEN <<Head(stats)>>
              ELSE [i \in DOMAIN hits |->
                       [Head(stats) EXCEPT !.STATEFIP_value = NotNull(hits[i].value)]])
             \o merge_state_names(Tail(stats), dim_rows)

\* the possible outcomes of analyze_by_state
analyze_by_state(internet, smartphone, dim) ==
    LET codes == [i \in DOMAIN dim.rows |-> dim.rows[i].code]
        stats == state_stats(codes, internet, smartphone)
    IN  IF stats = <<>> \/ ~dim.value_col
        THEN {[exc |-> "KeyError", rows |-> <<>>]}
        ELSE {[exc |-> "none", rows |-> st] :
                 st \in sort_by_percentage(merge_state_names(stats, dim.rows))}

\* lines 122-141: one record per education code of educ_dim, ascending, that
\* has valid rows for both conditions; EDUC_value stands for the column the
\* merge of line 144 adds
RECURSIVE educ_stats(_, _, _)
educ_stats(codes, internet, smartphone) ==
    IF codes = <<>> THEN <<>>
    ELSE LET educ_internet == RowsWhere(internet, "EDUC", Head(codes))
             educ_smartphone == RowsWhere(smartphone, "EDUC", Head(codes))
             rest == educ_stats(Tail(codes), internet, smartphone)
         IN  IF educ_internet # <<>> /\ educ_smartphone # <<>>
             THEN <<[EDUC |-> Head(codes),
                     internet_percentage |->
                         calculate_weighted_percentage(educ_internet, "PERWT",
                                                       "CINETHH", 1),
                     smartphone_percentage |->
                         calculate_weighted_percentage(educ_smartphone, "PERWT",
                                                       "CISMRTPHN", 1),
                     population_estimate |-> SumOf(educ_internet, "PERWT"),
                     EDUC_value |-> Null]>> \o rest
             ELSE rest

\* pd.merge(educ_stats_df, educ_dim, on='EDUC', how='left')
RECURSIVE merge_educ_names(_, _)
merge_educ_names(stats, dim_rows) ==
    IF stats = <<>> THEN <<>>
    ELSE LET hits == SelectSeq(dim_rows, LAMBDA d : d.code = Head(stats).EDUC)
         IN  (IF hits = <<>> THEN <<Head(stats)>>
              ELSE [i \in DOMAIN hits |->
                       [Head(stats) EXCEPT !.EDUC_value = NotNull(hits[i].value)]])
             \o merge_educ_names(Tail(stats), dim_rows)

\* the possible outcomes of analyze_by_education: KeyError when the fact
\* table has no column EDUC (line 123), when no education level has rows
\* (the merge of line 144 finds no column EDUC) or when educ_dim has no
\* column EDUC_value (line 169)
analyze_by_education(internet, smartphone, dim) ==
    LET codes == SortedSeq([i \in DOMAIN dim.rows |-> dim.rows[i].code])
        stats == educ_stats(codes, internet, smartphone)
    IN  IF codes # <<>> /\ "EDUC" \notin frame_columns(internet)
        THEN {[exc |-> "KeyError", rows |-> <<>>]}
        ELSE IF stats = <<>> \/ ~dim.value_col
        THEN {[exc |-> "KeyError", rows |-> <<>>]}
        ELSE {[exc |-> "none", rows |-> st] :
                 st \in sort_by_percentage(merge_educ_names(stats, dim.rows))}

\* ------------------------------------------------------ analysis: inputs
\* in the directory "state_sample" the fact tables vary in state, weight and
\* access codes; every person is 30 years old with an income of 20000
FactRecords ==
    {r @@ OtherCodes :
        r \in [STATEFIP : {1, 2}, PERWT : {0, 1, 2}, CINETHH : {1, 2, 9},
               CISMRTPHN : {1, 9}, AGE : {30}, INCTOT : {20000}]}
\* the script does not read CISMRTPHN
ScriptRecords == {r \in FactRecords : r.CISMRTPHN = 1}

\* in the directory "person_sample" the fact tables vary in age or in income
PersonRecords ==
    {r @@ OtherCodes :
        r \in [STATEFIP : {1}, PERWT : {1}, CINETHH : {1}, CISMRTPHN : {1},
               AGE : {0 - 5, 0, 18, 19, 65, 100, 999}, INCTOT : {20000}]
              \cup [STATEFIP : {1}, PERWT : {1}, CINETHH : {1, 9}, CISMRTPHN : {1},
                    AGE : {30},
                    INCTOT : {0 - 500, 0, 1, 20000, 20001, 60000, 100000, 100001}]}

Person(age, income, cinethh, perwt) ==
    [STATEFIP |-> 1, PERWT |-> perwt, CINETHH |-> cinethh, CISMRTPHN |-> 1,
     AGE |-> age, INCTOT |-> income] @@ OtherCodes

\* the ages -5, 0, 18, 19, 100, 999
AgeScenario ==
    <<Person(0 - 5, 20000, 1, 1), Person(0, 20000, 1, 1), Person(18, 20000, 1, 1),
      Person(19, 20000, 2, 1), Person(100, 20000, 1, 1), Person(100, 20000, 2, 1),
      Person(999, 20000, 1, 1)>>
\* seven distinct positive incomes, one of them twice, a zero and a
\* negative one
IncomeScenario ==
    <<Person(30, 0 - 500, 1, 1), Person(30, 0, 2, 2), Person(30, 10000, 1, 1),
      Person(30, 10000, 1, 1),
      Person(30, 20000, 2, 3), Person(30, 30000, 1, 1), Person(30, 50000, 2, 1),
      Person(30, 70000, 1, 3), Person(30, 90000, 2, 1), Person(30, 120000, 1, 1)>>
\* seven distinct positive incomes only
PositiveIncomeScenario ==
    <<Person(30, 10000, 1, 1), Person(30, 20000, 2, 3), Person(30, 30000, 1, 1),
      Person(30, 50000, 2, 1), Person(30, 70000, 1, 3), Person(30, 90000, 2, 1),
      Person(30, 120000, 1, 1)>>
\* every age band and every fallback income band occurs, with a different
\* share of access in each, and one record is not valid
FullScenario ==
    <<Person(10, 0, 1, 1), Person(10, 0 - 500, 2, 1),
      Person(20, 10000, 1, 1), Person(20, 20000, 2, 3),
      Person(30, 30000, 1, 3), Person(30, 40000, 2, 1),
      Person(40, 50000, 1, 1), Person(40, 60000, 2, 2),
      Person(60, 80000, 1, 2), Person(60, 100000, 2, 1),
      Person(70, 150000, 1, 1), Person(70, 100001, 2, 4),
      Person(30, 0 - 500, 9, 1)>>
\* a fact table without the column REGION
WithoutColumn(r, col) == [c \in DOMAIN r \ {col} |-> r[c]]
NoRegionScenario ==
    <<WithoutColumn(Person(30, 20000, 1, 1), "REGION"),
      WithoutColumn(Person(40, 50000, 2, 1), "REGION")>>
PersonScenarios ==
    {AgeScenario, IncomeScenario, PositiveIncomeScenario, FullScenario,
     NoRegionScenario}

\* the spec's first scenario, (weight, condition) = (10,1), (10,0), (5,1), (5,9)
\* in one group (condition 0 is "no", any code other than 1 and 9)
ScenarioFact ==
    LET row(perwt, cinethh) ==
            [STATEFIP |-> 1, PERWT |-> perwt, CINETHH |-> cinethh, CISMRTPHN |-> 1,
             AGE |-> 30, INCTOT |-> 20000] @@ OtherCodes
    IN  <<row(10, 1), row(10, 0), row(5, 1), row(5, 9)>>
\* the same persons with an education code that dim_educ.csv does not list
UnlistedEducFact == [i \in DOMAIN ScenarioFact |-> [ScenarioFact[i] EXCEPT !.EDUC = 3]]

\* read_csv gives the rows the index 0, 1, 2, ...
WithIndex(recs) == [i \in DOMAIN recs |-> recs[i] @@ ("index" :> i - 1)]

\* the fact tables of n rows in the directory read, every n up to
\* MaxFactRows, and the scenarios
RecordLists(n) ==
    IF data_dir = "person_sample"
    THEN IF n <= MaxFactRows THEN [1..n -> PersonRecords] ELSE PersonScenarios
    ELSE IF n > MaxFactRows THEN {ScenarioFact, UnlistedEducFact}
    ELSE IF program = "script" THEN [1..n -> ScriptRecords]
    ELSE [1..n -> FactRecords]
FactSizes == 0..(MaxFactRows + 1)

StateNames == <<"Alabama", "Alaska", "Arizona">>
NameAt(i) == IF i <= Len(StateNames) THEN StateNames[i] ELSE "State " \o PyStr(i)

\* the code lists of dim_statefip.csv: codes may be missing, out of order or
\* repeated
DimCodeLists == {<<>>, <<1>>, <<2>>, <<1, 2>>, <<2, 1>>, <<1, 1>>}

\* dim_statefip.csv, with or without its STATEFIP_value column
StateDimTables ==
    {[value_col |-> vc,
      rows |-> [i \in DOMAIN codes |-> [code |-> codes[i], value |-> NameAt(i)]]] :
        vc \in BOOLEAN, codes \in DimCodeLists}

\* dim_statefip.csv as the star-schema directory holds it, or no such file
StateDimFiles ==
    {[exists |-> TRUE, table |-> d] : d \in StateDimTables}
    \cup {[exists |-> FALSE, table |-> NoTable]}

\* dim_educ.csv, which both directories hold
dim_educ_csv ==
    [value_col |-> TRUE,
     rows |-> <<[code |-> 2, value |-> "Grade 12"],
                [code |-> 1, value |-> "N/A or no schooling"]>>]

NoBuckets == [path |-> "none", log |-> <<>>, values |-> <<>>, income_data |-> <<>>]

StatsIdle ==
    /\ pc = "start"
    /\ fact_csv = <<>>
    /\ internet_data = <<>>
    /\ income_buckets = NoBuckets
    /\ dimension_tables = <<>>
    /\ access_stats = <<>>
    /\ analysis_results = <<>>
    /\ valid_internet = <<>>
    /\ valid_smartphone = <<>>
    /\ state_dim = NoTable
    /\ state_stats_df = <<>>
    /\ educ_dim = NoTable
    /\ educ_stats_df = <<>>
    /\ results_csv = <<>>
    /\ raised = "none"

SchemaIdle ==
    /\ stage = "new"
    /\ fact_df = NoFrame
    /\ ipums_vars = <<>>
    /\ dim_files = <<>>
    /\ fact_file = NoFrame
    /\ console = <<>>

\* ----------------------------------------------------------- create_schema
SchemaInit ==
    /\ SchemaIdle
    /\ program = "create_schema"
    /\ data_dir = "state_sample"
    /\ groupby_observed = FALSE
    /\ dim_statefip_csv = [exists |-> FALSE, table |-> NoTable]
    /\ StatsIdle

\* line 117: the dimension variables without a definition, in column order
missing_defs(df, defs) ==
    SelectSeq(dim_vars(df), LAMBDA v : v \notin DOMAIN defs)

\* sorted(names) for a list of dimension variables
sorted_names(names) ==
    SelectSeq(<<"EDUC", "STATEFIP">>, LAMBDA v : v \in SeqToSet(names))

\* lines 118-121: the WARNING header and one line per variable, in the order
\* of sorted(missing_defs)
warning_lines(names) ==
    IF names = <<>> THEN <<>>
    ELSE <<<<"WARNING: The following variables are missing definitions:", "">>>>
         \o [i \in DOMAIN sorted_names(names) |-> <<"  - ", sorted_names(names)[i]>>]

\* load_data with a readable extract and a readable codebook
load_data ==
    /\ stage = "new"
    /\ \E df \in FactFrames, defs \in Codebooks :
          /\ fact_df' = df
          /\ ipums_vars' = defs
          /\ console' = warning_lines(missing_defs(df, defs))
    /\ stage' = "loaded"
    /\ UNCHANGED <<dim_files, fact_file>>
    /\ UNCHANGED stats_vars

\* load_data re-raises and create_schema reports the error (line 231):
\* either the extract cannot be read (lines 71-73), fact_df still None, or
\* the extract is read and the codebook cannot be parsed (lines 123-125),
\* ipums_vars still None
load_data_raises ==
    /\ stage = "new"
    /\ stage' = "failed"
    /\ \/ /\ console' = <<<<"Error reading CSV file", "">>,
                           <<"An error occurred", "load_data">>>>
          /\ UNCHANGED fact_df
       \/ /\ \E df \in FactFrames : fact_df' = df
          /\ console' = <<<<"Error reading XML file", "">>,
                           <<"An error occurred", "load_data">>>>
    /\ UNCHANGED <<ipums_vars, dim_files, fact_file>>
    /\ UNCHANGED stats_vars

create_dimension_tables_step ==
    /\ stage = "loaded"
    /\ \E r \in create_dimension_tables(fact_df, ipums_vars) :
          /\ dim_files' = r.files
          /\ stage' = IF r.exc = "none" THEN "dimensions" ELSE "failed"
          /\ console' = console \o r.out \o
                        (IF r.exc = "none" THEN <<>>
                         ELSE <<<<"An error occurred", r.exc>>>>)
    /\ UNCHANGED <<fact_df, ipums_vars, fact_file>>
    /\ UNCHANGED stats_vars

save_fact_table ==
    /\ stage = "dimensions"
    /\ fact_df' = drop_excluded(fact_df)
    /\ fact_file' = drop_excluded(fact_df)
    /\ stage' = "saved"
    /\ UNCHANGED <<ipums_vars, dim_files, console>>
    /\ UNCHANGED stats_vars

print_schema_structure ==
    /\ stage = "saved"
    /\ stage' = "done"
    /\ console' = Append(console, <<"Star schema created successfully!", "">>)
    /\ UNCHANGED <<fact_df, ipums_vars, dim_files, fact_file>>
    /\ UNCHANGED stats_vars

SchemaNext ==
    \/ load_data
    \/ load_data_raises
    \/ create_dimension_tables_step
    \/ save_fact_table
    \/ print_schema_structure

SchemaSpec == SchemaInit /\ [][SchemaNext]_vars

\* ------------------------------------------------- the analysis programs
StatsInit ==
    /\ SchemaIdle
    /\ program \in {"script", "analyzer"}
    /\ data_dir = "state_sample"
    /\ groupby_observed \in (IF program = "script" THEN BOOLEAN ELSE {FALSE})
    /\ dim_statefip_csv \in StateDimFiles
    /\ StatsIdle

\* the column INCTOT of a frame
INCTOT_column(rows) == [i \in DOMAIN rows |-> rows[i].INCTOT]

\* mutant: the frame is returned without the derived columns
add_bucket_columns_skipped(rows, buckets) == rows

\* lines 118-127: the columns AGE_BUCKET and INCTOT_BUCKET are set on the
\* filtered frame; buckets is what create_income_buckets returned for its
\* column INCTOT
add_bucket_columns(rows, buckets) ==
    [i \in DOMAIN rows |->
        [rows[i] EXCEPT !.INCTOT = buckets.income_data[i]]
        @@ ("AGE_BUCKET" :> age_bucket(rows[i].AGE))
        @@ ("INCTOT_BUCKET" :> buckets.values[i])]

\* main() line 319: the files are read, the records with CINETHH = 9 are
\* dropped (line 115) and the derived columns are added (lines 118-127)
load_and_prepare_data ==
    /\ program = "script"
    /\ pc = "start"
    /\ \E n \in FactSizes : \E recs \in RecordLists(n) :
          LET valid == valid_internet_records(WithIndex(recs))
              buckets == create_income_buckets(INCTOT_column(valid))
          IN  /\ fact_csv' = WithIndex(recs)
              /\ income_buckets' = buckets
              /\ internet_data' = add_bucket_columns(valid, buckets)
    /\ dimension_tables' = IF dim_statefip_csv.exists
                           THEN [statefip |-> dim_statefip_csv.table,
                                 educ |-> dim_educ_csv]
                           ELSE [educ |-> dim_educ_csv]
    /\ pc' = "prepared"
    /\ UNCHANGED <<program, data_dir, groupby_observed, dim_statefip_csv,
                   access_stats, analysis_results, valid_internet,
                   valid_smartphone, state_dim, state_stats_df, raised>>
    /\ UNCHANGED <<educ_dim, educ_stats_df, results_csv>>
    /\ UNCHANGED schema_vars

\* lines 322-326
dimensions ==
    <<"statefip", "region", "educ", "race", "sex", "empstat", "language",
      "diffeye", "diffsens", "diffcare", "diffrem", "AGE_BUCKET", "INCTOT_BUCKET">>

\* main() lines 330-346 for the first dimension, 'statefip'; an exception
\* leaves main (line 354)
analyze_dimension_step ==
    /\ program = "script"
    /\ pc = "prepared"
    /\ \E r \in analyze_dimension(internet_data,
                                  table_or_empty(dimension_tables, Head(dimensions)),
                                  Head(dimensions)) :
          /\ access_stats' = r.stats
          /\ analysis_results' = IF r.exc = "none"
                                 THEN [statefip |-> r.frame] ELSE analysis_results
          /\ raised' = r.exc
          /\ pc' = IF r.exc = "none" THEN "analyzed" ELSE "raised"
    /\ UNCHANGED <<program, data_dir, groupby_observed, dim_statefip_csv,
                   fact_csv, internet_data, income_buckets, dimension_tables,
                   valid_internet, valid_smartphone, state_dim, state_stats_df>>
    /\ UNCHANGED <<educ_dim, educ_stats_df, results_csv>>
    /\ UNCHANGED schema_vars

\* TechnologyAccessAnalyzer.load_data; a missing dim_statefip.csv raises
analyzer_load_data ==
    /\ program = "analyzer"
    /\ pc = "start"
    /\ \E n \in FactSizes : \E recs \in RecordLists(n) :
          /\ fact_csv' = WithIndex(recs)
          /\ IF dim_statefip_csv.exists
             THEN /\ state_dim' = dim_statefip_csv.table
                  /\ educ_dim' = dim_educ_csv
                  /\ valid_internet' = RowsWhereNot(WithIndex(recs), "CINETHH", 9)
                  /\ valid_smartphone' = RowsWhereNot(WithIndex(recs), "CISMRTPHN", 9)
                  /\ pc' = "loaded"
                  /\ raised' = "none"
             ELSE /\ pc' = "raised"
                  /\ raised' = "FileNotFoundError"
                  /\ UNCHANGED <<state_dim, educ_dim, valid_internet,
                                 valid_smartphone>>
    /\ UNCHANGED <<program, data_dir, groupby_observed, dim_statefip_csv,
                   internet_data, income_buckets, dimension_tables,
                   access_stats, analysis_results, state_stats_df,
                   educ_stats_df, results_csv>>
    /\ UNCHANGED schema_vars

\* TechnologyAccessAnalyzer.analyze_by_state, as run_analysis calls it
analyze_by_state_step ==
    /\ program = "analyzer"
    /\ pc = "loaded"
    /\ \E r \in analyze_by_state(valid_internet, valid_smartphone, state_dim) :
          /\ state_stats_df' = r.rows
          /\ raised' = r.exc
          /\ pc' = IF r.exc = "none" THEN "analyzed" ELSE "raised"
    /\ UNCHANGED <<program, data_dir, groupby_observed, dim_statefip_csv,
                   fact_csv, internet_data, income_buckets, dimension_tables,
                   access_stats, analysis_results, valid_internet,
                   valid_smartphone, state_dim, educ_dim, educ_stats_df,
                   results_csv>>
    /\ UNCHANGED schema_vars

\* TechnologyAccessAnalyzer.analyze_by_education, as run_analysis calls it
analyze_by_education_step ==
    /\ program = "analyzer"
    /\ pc = "analyzed"
    /\ \E r \in analyze_by_education(valid_internet, valid_smartphone, educ_dim) :
          /\ educ_stats_df' = r.rows
          /\ raised' = r.exc
          /\ pc' = IF r.exc = "none" THEN "education_analyzed" ELSE "raised"
    /\ UNCHANGED <<program, data_dir, groupby_observed, dim_statefip_csv,
                   fact_csv, internet_data, income_buckets, dimension_tables,
                   access_stats, analysis_results, valid_internet,
                   valid_smartphone, state_dim, state_stats_df, educ_dim,
                   results_csv>>
    /\ UNCHANGED schema_vars

\* TechnologyAccessAnalyzer.save_results: the two tables are written as they
\* were returned
save_results ==
    /\ program = "analyzer"
    /\ pc = "education_analyzed"
    /\ results_csv' = [internet_smartphone_by_state |-> state_stats_df,
                       internet_smartphone_by_education |-> educ_stats_df]
    /\ pc' = "finished"
    /\ UNCHANGED <<program, data_dir, groupby_observed, dim_statefip_csv,
                   fact_csv, internet_data, income_buckets, dimension_tables,
                   access_stats, analysis_results, valid_internet,
                   valid_smartphone, state_dim, state_stats_df, educ_dim,
                   educ_stats_df, raised>>
    /\ UNCHANGED schema_vars

\* lines 329-346 over the dimensions names: the results of the dimensions
\* analyzed so far, and the exception that ended the loop
RECURSIVE analyze_loop(_, _, _, _)
analyze_loop(rows, tables, names, results) ==
    IF names = <<>> THEN {[exc |-> "none", results |-> results]}
    ELSE UNION {IF r.exc # "none"
                THEN {[exc |-> r.exc, results |-> results]}
                ELSE analyze_loop(rows, tables, Tail(names),
                                  results @@ (Head(names) :> r.frame)) :
                   r \in analyze_dimension(rows,
                                           table_or_empty(tables, Head(names)),
                                           Head(names))}

\* main() lines 329-346 for the dimensions after the first, 'region' to
\* 'INCTOT_BUCKET'; an exception leaves main (line 354)
analyze_remaining_dimensions_step ==
    /\ program = "script"
    /\ pc = "analyzed"
    /\ \E r \in analyze_loop(internet_data, dimension_tables, Tail(dimensions),
                              analysis_results) :
          /\ analysis_results' = r.results
          /\ raised' = r.exc
          /\ pc' = IF r.exc = "none" THEN "finished" ELSE "raised"
    /\ UNCHANGED <<program, data_dir, groupby_observed, dim_statefip_csv,
                   fact_csv, internet_data, income_buckets, dimension_tables,
                   access_stats, valid_internet, valid_smartphone, state_dim,
                   state_stats_df>>
    /\ UNCHANGED <<educ_dim, educ_stats_df, results_csv>>
    /\ UNCHANGED schema_vars

ScriptNext ==
    \/ load_and_prepare_data
    \/ analyze_dimension_step
    \/ analyze_remaining_dimensions_step

StatsNext ==
    \/ load_and_prepare_data
    \/ analyze_dimension_step
    \/ analyze_remaining_dimensions_step
    \/ analyzer_load_data
    \/ analyze_by_state_step
    \/ analyze_by_education_step
    \/ save_results

StatsSpec == StatsInit /\ [][StatsNext]_vars

\* the script over the directory whose persons differ in age and income
BucketInit ==
    /\ SchemaIdle
    /\ program = "script"
    /\ data_dir = "person_sample"
    /\ groupby_observed \in BOOLEAN
    /\ dim_statefip_csv \in
          {f \in StateDimFiles :
              \/ ~f.exists
              \/ f.table.value_col /\ Len(f.table.rows) = 1 /\ f.table.rows[1].code = 1}
    /\ StatsIdle

BucketSpec == BucketInit /\ [][ScriptNext]_vars

\* ------------------------------------------------ dimension-table claims
\* create_dimension_tables has run (to its end or to an exception)
LoadFailed ==
    \E i \in DOMAIN console :
        console[i][1] \in {"Error reading CSV file", "Error reading XML file"}
DimsRan == stage \in {"dimensions", "saved", "done"}
              \/ (stage = "failed" /\ ~LoadFailed)

TableCodes(tb) == {tb[i].code : i \in DOMAIN tb}
DeclaredCodes(var_info) ==
    {code_val(var_info.codes[i].key) : i \in DOMAIN var_info.codes}
DefinedDimVars == SeqToSet(dim_vars(fact_df)) \cap DOMAIN ipums_vars
\* the dimension variables the loop handles before var_name
EarlierVars(var_name) ==
    LET names == dim_vars(fact_df)
    IN  {names[i] : i \in {j \in DOMAIN names :
                              \E k \in DOMAIN names : names[k] = var_name /\ j < k}}
\* the loop reached var_name: no earlier variable raised
Reached(var_name) ==
    \A u \in EarlierVars(var_name) \cap DOMAIN ipums_vars : u \in DOMAIN dim_files

\* C1: for every dimension variable with a codebook definition (also one that
\* declares zero codes), the codes of the table built are exactly the declared
\* codes (parsed) united with the values observed in the fact column.
C1_ReconciliationComplete ==
    DimsRan =>
        \A v \in DefinedDimVars :
            Reached(v) =>
                /\ v \in DOMAIN dim_files
                /\ TableCodes(dim_files[v]) =
                       DeclaredCodes(ipums_vars[v]) \cup actual_values(fact_df, v)

\* C2: in a table built from a codebook whose code keys are distinct strings,
\* no two entries carry the same code.
C2_CodesUnique ==
    \A v \in DOMAIN dim_files :
        \A i, j \in DOMAIN dim_files[v] :
            dim_files[v][i].code = dim_files[v][j].code => i = j

\* the labels the codebook declares for a code
DeclaredLabels(var_info, code) ==
    {var_info.codes[i].label :
        i \in {j \in DOMAIN var_info.codes : code_val(var_info.codes[j].key) = code}}

\* C3: in a built table every declared code carries its codebook label, an
\* entry carries "Undefined code: <code>" exactly when its code is observed
\* and not declared, and every entry carries the variable's description;
\* declared {1: Yes, 2: No} with 1, 2, 3 observed gives the three entries
\* (1, Yes), (2, No), (3, Undefined code: 3).
C3_LabelAssignment ==
    \A v \in DOMAIN dim_files :
        LET tb == dim_files[v]
            info == ipums_vars[v]
            observed == actual_values(fact_df, v)
            declared == DeclaredCodes(info)
        IN  /\ \A i \in DOMAIN info.codes :
                  \E k \in DOMAIN tb :
                      /\ tb[k].code = code_val(info.codes[i].key)
                      /\ tb[k].value = info.codes[i].label
            /\ \A k \in DOMAIN tb :
                  /\ tb[k].desc = info.desc
                  /\ tb[k].code \in declared =>
                         tb[k].value \in DeclaredLabels(info, tb[k].code)
                  /\ (tb[k].code.t = "int"
                      /\ tb[k].value = "Undefined code: " \o PyStr(tb[k].code.n))
                     <=> (tb[k].code \in observed /\ tb[k].code \notin declared)
            /\ (/\ info.codes = <<[key |-> <<"1">>, label |-> "Yes"],
                                  [key |-> <<"2">>, label |-> "No"]>>
                /\ observed = {IntVal(1), IntVal(2), IntVal(3)})
               => tb = <<[code |-> IntVal(1), value |-> "Yes", desc |-> info.desc],
                         [code |-> IntVal(2), value |-> "No", desc |-> info.desc],
                         [code |-> IntVal(3), value |-> "Undefined code: 3",
                          desc |-> info.desc]>>

\* the second scenario of the spec has been built
C3_Witness ==
    /\ "STATEFIP" \in DOMAIN dim_files
    /\ Len(dim_files["STATEFIP"]) = 3
    /\ dim_files["STATEFIP"][3].value = "Undefined code: 3"
    /\ dim_files["STATEFIP"][1].value = "Yes"
    /\ actual_values(fact_df, "STATEFIP") = {IntVal(1), IntVal(2), IntVal(3)}

MixesTypes(var_info) ==
    \E i, j \in DOMAIN var_info.codes :
        PyInt(var_info.codes[i].key).ok /\ ~PyInt(var_info.codes[j].key).ok

\* C4: a table is ascending by code, and for a codebook that mixes parsable
\* and non-parsable code strings the build completes, the numeric codes
\* ascending and before all symbolic codes.
C4_Ordering ==
    DimsRan =>
        \A v \in DefinedDimVars :
            (Reached(v) /\ MixesTypes(ipums_vars[v])) =>
                /\ v \in DOMAIN dim_files
                /\ \A i, j \in DOMAIN dim_files[v] :
                      i < j =>
                          LET a == dim_files[v][i].code
                              b == dim_files[v][j].code
                          IN  \/ a.t = "int" /\ b.t = "str"
                              \/ a.t = b.t /\ CodeLeq(a, b)

\* C5: a dimension column without a codebook definition still gets a table of
\* its observed codes, and the remaining variables are built.
C5_MissingDefinitionTable ==
    stage \in {"dimensions", "saved", "done"} =>
        \A v \in SeqToSet(dim_vars(fact_df)) :
            /\ v \in DOMAIN dim_files
            /\ v \notin DOMAIN ipums_vars =>
                   TableCodes(dim_files[v]) = actual_values(fact_df, v)

\* ---------------------------------------------------- aggregation claims
\* the sum of PERWT over the rows of a frame at the positions I
RECURSIVE WeightOver(_, _)
WeightOver(rows, I) ==
    IF I = {} THEN 0
    ELSE LET i == CHOOSE j \in I : TRUE
         IN  rows[i].PERWT + WeightOver(rows, I \ {i})

\* positions of the rows of group g in a frame, and those with access value 1
GroupRows(rows, g) == {i \in DOMAIN rows : rows[i].STATEFIP = g}
AccessRows(rows, g) == {i \in GroupRows(rows, g) : rows[i].CINETHH = 1}
\* positions of the rows of group g in the fact table as read that do not
\* carry the missing code 9 in column col
ReportedRows(g, col) ==
    {i \in DOMAIN fact_csv : fact_csv[i].STATEFIP = g /\ fact_csv[i][col] # 9}
Groups(rows) == {rows[i].STATEFIP : i \in DOMAIN rows}
ZeroWeightGroups(rows) ==
    {g \in Groups(rows) : WeightOver(rows, GroupRows(rows, g)) = 0}

\* the analysis of the dimension 'statefip' has run (to its end or to an
\* exception)
ScriptRan ==
    /\ program = "script"
    /\ pc = "analyzed" \/ (pc = "raised" /\ "statefip" \notin DOMAIN analysis_results)
ScriptAnalyzed == program = "script" /\ pc = "analyzed"
\* analyze_by_state has returned its frame
AnalyzerAnalyzed ==
    program = "analyzer" /\ pc \in {"analyzed", "education_analyzed", "finished"}
\* analyze_by_education has returned its frame
EducationAnalyzed ==
    program = "analyzer" /\ pc \in {"education_analyzed", "finished"}

\* C6: a group whose weights sum to 0 is reported with percentage 0 and
\* population estimate 0 and no division error is raised, by
\* calculate_weighted_access_stats as well as by calculate_weighted_percentage.
C6_ZeroWeightPolicy ==
    /\ ScriptRan =>
          /\ raised # "ZeroDivisionError"
          /\ \A g \in ZeroWeightGroups(internet_data) :
                \E i \in DOMAIN access_stats :
                    /\ access_stats[i].dimension_value = g
                    /\ access_stats[i].internet_percentage = [num |-> 0, den |-> 1]
                    /\ access_stats[i].population_estimate = 0
    /\ AnalyzerAnalyzed =>
          \A i \in DOMAIN state_stats_df :
              state_stats_df[i].STATEFIP \in ZeroWeightGroups(valid_internet) =>
                  /\ state_stats_df[i].internet_percentage = [num |-> 0, den |-> 1]
                  /\ state_stats_df[i].population_estimate = 0

\* C7: for every group with positive total weight calculate_weighted_access_stats
\* returns exactly one record, its population_estimate the sum of the weights
\* of all rows of the group and its percentage 100 * (weight of the rows with
\* access value 1) / (weight of the group), between 0 and 100.
C7_PerGroupStatistic ==
    ScriptRan =>
        \A g \in Groups(internet_data) \ ZeroWeightGroups(internet_data) :
            LET total == WeightOver(internet_data, GroupRows(internet_data, g))
                access == WeightOver(internet_data, AccessRows(internet_data, g))
                recs == {i \in DOMAIN access_stats :
                            access_stats[i].dimension_value = g}
            IN  /\ Cardinality(recs) = 1
                /\ \A i \in recs :
                      LET pct == access_stats[i].internet_percentage
                      IN  /\ access_stats[i].population_estimate = total
                          /\ pct.num * total = 100 * access * pct.den
                          /\ 0 <= pct.num /\ pct.num <= 100 * pct.den

\* C8: no row whose condition column carries the sentinel 9 contributes to a
\* total weight, a condition weight or a population estimate; the rows
\* (10,1), (10,0), (5,1), (5,9) of one group give total weight 25, condition
\* weight 15, percentage 60.
C8_SentinelExcluded ==
    /\ (program = "script" /\ pc # "start") =>
          /\ \A i \in DOMAIN internet_data : internet_data[i].CINETHH # 9
          /\ {internet_data[i].index : i \in DOMAIN internet_data} =
                 {fact_csv[i].index : i \in {j \in DOMAIN fact_csv :
                                                fact_csv[j].CINETHH # 9}}
    /\ ScriptAnalyzed =>
          /\ \A i \in DOMAIN access_stats :
                LET g == access_stats[i].dimension_value
                    pct == access_stats[i].internet_percentage
                    total == WeightOver(fact_csv, ReportedRows(g, "CINETHH"))
                IN  /\ access_stats[i].population_estimate = total
                    /\ pct.num * total =
                           100 * pct.den
                           * WeightOver(fact_csv,
                                        AccessRows(fact_csv, g)
                                            \cap ReportedRows(g, "CINETHH"))
          /\ fact_csv = WithIndex(ScenarioFact) =>
                /\ access_stats = <<[dimension_value |-> 1,
                                     population_estimate |-> 25,
                                     internet_percentage |-> [num |-> 60, den |-> 1]]>>
                /\ WeightOver(internet_data, AccessRows(internet_data, 1)) = 15
    /\ AnalyzerAnalyzed =>
          \A i \in DOMAIN state_stats_df :
             LET g == state_stats_df[i].STATEFIP
                 ipct == state_stats_df[i].internet_percentage
                 spct == state_stats_df[i].smartphone_percentage
                 itotal == WeightOver(fact_csv, ReportedRows(g, "CINETHH"))
                 stotal == WeightOver(fact_csv, ReportedRows(g, "CISMRTPHN"))
             IN  /\ state_stats_df[i].population_estimate = itotal
                 /\ ipct.num * itotal =
                        100 * ipct.den
                        * WeightOver(fact_csv,
                                     AccessRows(fact_csv, g)
                                         \cap ReportedRows(g, "CINETHH"))
                 /\ spct.num * stotal =
                        100 * spct.den
                        * WeightOver(fact_csv,
                                     {j \in ReportedRows(g, "CISMRTPHN") :
                                         fact_csv[j].CISMRTPHN = 1})
                 /\ fact_csv = WithIndex(ScenarioFact) =>
                        /\ itotal = 25
                        /\ ipct = [num |-> 60, den |-> 1]

\* the first scenario has been aggregated by the script
C8_Witness ==
    /\ ScriptAnalyzed
    /\ fact_csv = WithIndex(ScenarioFact)
    /\ Len(internet_data) = 3
    /\ Len(access_stats) = 1
    /\ access_stats[1].population_estimate = 25

\* descending by percentage, equal percentages ascending by group value
OrderedByPercentage(rows, key) ==
    \A i, j \in DOMAIN rows :
        i < j =>
            \/ RatLess(rows[j].internet_percentage, rows[i].internet_percentage)
            \/ /\ rows[j].internet_percentage = rows[i].internet_percentage
               /\ rows[i][key] <= rows[j][key]

\* C9: the statistics returned are in descending order of percentage, and
\* groups with equal percentage are in ascending order of their group value.
C9_ResultOrdering ==
    /\ ScriptAnalyzed => OrderedByPercentage(access_stats, "dimension_value")
    /\ AnalyzerAnalyzed => OrderedByPercentage(state_stats_df, "STATEFIP")

UniqueByCode(dim_table) ==
    \A i, j \in DOMAIN dim_table.rows :
        dim_table.rows[i].code = dim_table.rows[j].code => i = j

SameStatistic(row, st) ==
    /\ row.dimension_value = st.dimension_value
    /\ row.internet_percentage = st.internet_percentage
    /\ row.population_estimate = st.population_estimate

\* C10: merged with a dimension table that is unique by code, the statistics
\* keep exactly one row per input row, in order, with dimension_value,
\* percentage and population_estimate unchanged; a row without a dimension
\* entry is kept with a null label; for AGE_BUCKET / INCTOT_BUCKET or a table
\* without the value column the statistics come back unchanged.
C10_MergePreservesGroups ==
    ScriptAnalyzed =>
        LET dim == table_or_empty(dimension_tables, "statefip")
            res == analysis_results["statefip"]
            age == merge_dimension_descriptions(access_stats, dim, "AGE_BUCKET")
            inc == merge_dimension_descriptions(access_stats, dim, "INCTOT_BUCKET")
        IN  /\ UniqueByCode(dim) =>
                /\ Len(res.rows) = Len(access_stats)
                /\ \A i \in DOMAIN res.rows :
                      /\ SameStatistic(res.rows[i], access_stats[i])
                      /\ (res.merged
                          /\ \E k \in DOMAIN dim.rows :
                                dim.rows[k].code = access_stats[i].dimension_value)
                         => \E k \in DOMAIN dim.rows :
                               /\ dim.rows[k].code = access_stats[i].dimension_value
                               /\ res.rows[i].dim_value = NotNull(dim.rows[k].value)
                      /\ (\A k \in DOMAIN dim.rows :
                             dim.rows[k].code # access_stats[i].dimension_value)
                         => res.rows[i].dim_value = Null
            /\ res.merged = dim.value_col
            /\ ~age.merged /\ ~inc.merged
            /\ Len(age.rows) = Len(access_stats) /\ inc.rows = age.rows
            /\ \A i \in DOMAIN age.rows : SameStatistic(age.rows[i], access_stats[i])

\* a merge in which one group has a label and another has none
C10_Witness ==
    /\ ScriptAnalyzed
    /\ UniqueByCode(table_or_empty(dimension_tables, "statefip"))
    /\ analysis_results["statefip"].merged
    /\ Len(access_stats) = 2
    /\ \E i, j \in DOMAIN analysis_results["statefip"].rows :
          /\ analysis_results["statefip"].rows[i].dim_value = Null
          /\ analysis_results["statefip"].rows[j].dim_value # Null

\* ------------------------------------------------- schema-run claims
SuccessReported ==
    \E i \in DOMAIN console : console[i][1] = "Star schema created successfully!"

MissingMeasures(df) ==
    {MEASURE_VARS[i] : i \in DOMAIN MEASURE_VARS} \ SeqToSet(df.columns)

\* C15: when a required measure column (PERWT, AGE, HHINCOME, INCTOT) is
\* absent from the fact relation the schema run stops: no projected fact
\* table is produced and no success is reported.
C15_RequiredMeasuresVerified ==
    (fact_df # NoFrame /\ MissingMeasures(fact_df) # {}) =>
        /\ stage \notin {"saved", "done"}
        /\ fact_file = NoFrame
        /\ ~SuccessReported

\* C16: save_fact_table removes exactly the columns of EXCLUDE_VARS that are
\* present, keeps every other column in place and every row with its values,
\* and projecting the result once more changes nothing.
C16_FactProjection ==
    [][(stage = "dimensions" /\ stage' = "saved") =>
          /\ fact_file'.columns =
                 SelectSeq(fact_df.columns,
                           LAMBDA col : col \notin {"PERNUM", "YEAR"})
          /\ Len(fact_file'.rows) = Len(fact_df.rows)
          /\ \A i \in DOMAIN fact_df.rows :
                /\ DOMAIN fact_file'.rows[i] = SeqToSet(fact_file'.columns)
                /\ \A col \in SeqToSet(fact_file'.columns) :
                      fact_file'.rows[i][col] = fact_df.rows[i][col]
          /\ fact_df' = fact_file'
          /\ drop_excluded(fact_file') = fact_file']_vars

\* a fact table saved from an extract that had YEAR but no PERNUM column
C16_Witness ==
    /\ stage = "saved"
    /\ fact_file.columns = <<"EDUC", "STATEFIP", "PERWT", "AGE", "INCTOT">>
    /\ Len(fact_file.rows) = 2
    /\ fact_file.rows[1].STATEFIP # fact_file.rows[2].STATEFIP

\* the stage that may follow a stage of create_schema
StageOrder ==
    {<<"new", "loaded">>, <<"new", "failed">>, <<"loaded", "dimensions">>,
     <<"loaded", "failed">>, <<"dimensions", "saved">>, <<"saved", "done">>}

\* C19: create_schema runs load_data, create_dimension_tables,
\* save_fact_table, print_schema_structure in this order; after a stage has
\* failed no later stage runs (no table is built after the one that raised,
\* no fact table is saved) and success is never reported.
C19_FatalErrorsHalt ==
    [][/\ <<stage, stage'>> \in StageOrder
       /\ stage' = "failed" =>
              /\ fact_file' = NoFrame
              /\ ~SuccessReported'
              /\ console'[Len(console')][1] = "An error occurred"
       /\ stage' \in {"dimensions", "saved", "done"} =>
              /\ \A v \in SeqToSet(dim_vars(fact_df')) \cap DOMAIN ipums_vars' :
                     v \in DOMAIN dim_files'
              /\ \A i \in DOMAIN console' : console'[i][1] # "An error occurred"
       /\ SuccessReported' <=> stage' = "done"]_vars

\* create_dimension_tables raised after it had saved a first table
C19_Witness ==
    /\ stage = "failed"
    /\ fact_df # NoFrame
    /\ DOMAIN dim_files # {}
    /\ fact_file = NoFrame
    /\ ~SuccessReported

\* ------------------------------------------------ per-dimension analyzer
\* the education codes of a relation
EducCodes(rows) == {rows[i].EDUC : i \in DOMAIN rows}

\* C20: every STATEFIP value that occurs in a row of the sentinel-filtered
\* fact relation (valid for either access condition) has a statistics record
\* in the frame analyze_by_state returns, and every EDUC value one in the
\* frame analyze_by_education returns, whether or not the dimension table
\* has an entry for it and whether or not it has valid rows for both conditions.
C20_NoGroupLost ==
    /\ AnalyzerAnalyzed =>
          \A g \in Groups(valid_internet) \cup Groups(valid_smartphone) :
              \E i \in DOMAIN state_stats_df : state_stats_df[i].STATEFIP = g
    /\ EducationAnalyzed =>
          \A g \in EducCodes(valid_internet) \cup EducCodes(valid_smartphone) :
              \E i \in DOMAIN educ_stats_df : educ_stats_df[i].EDUC = g

\* ------------------------------------------------------- bucketing claims
\* load_and_prepare_data has returned the prepared frame
Prepared == program = "script" /\ pc # "start"

\* the label of an age by inclusive bands after clamping at 0, "Unknown"
\* outside every band
InclusiveBandLabel(age) ==
    LET a == IF age < 0 THEN 0 ELSE age
    IN  IF a <= 18 THEN "0-18"
        ELSE IF a <= 25 THEN "19-25"
        ELSE IF a <= 35 THEN "26-35"
        ELSE IF a <= 50 THEN "36-50"
        ELSE IF a <= 65 THEN "51-65"
        ELSE IF a <= 100 THEN "65+"
        ELSE "Unknown"

\* C11: every row of the prepared frame has as AGE_BUCKET the label of the
\* first inclusive band that holds its age, a negative age counting as 0 and
\* an age outside every band getting "Unknown"; the ages -5, 0, 18, 19, 100,
\* 999 get "0-18", "0-18", "0-18", "19-25", "65+", "Unknown".
C11_AgeBucketing ==
    Prepared =>
        \A i \in DOMAIN internet_data :
            /\ ~internet_data[i].AGE_BUCKET.isnull
            /\ internet_data[i].AGE_BUCKET.v = InclusiveBandLabel(internet_data[i].AGE)

\* the incomes of the prepared frame, as read from the fact table
PreparedIncomes == {internet_data[i].INCTOT : i \in DOMAIN internet_data}
PositiveIncomes == {x \in PreparedIncomes : x > 0}

\* C12: for every income series (negative, zero and positive values, repeated
\* values, any length from 1) create_income_buckets returns a series of the
\* same length in which every row has one label that is not null.
C12_TotalCoverage ==
    Prepared =>
        /\ income_buckets.path \in {"no_income", "quantile", "fallback"}
        /\ Len(income_buckets.values) = Len(internet_data)
        /\ \A i \in DOMAIN internet_data :
              /\ ~income_buckets.values[i].isnull
              /\ internet_data[i].INCTOT_BUCKET = income_buckets.values[i]
              /\ internet_data[i].INCTOT_BUCKET.v \in
                     SeqToSet(fallback_labels) \cup SeqToSet(quantile_labels)

\* a series with a negative, a zero, a positive and a repeated income
C12_Witness ==
    /\ Prepared
    /\ income_buckets.path = "fallback"
    /\ \E i, j, k \in DOMAIN internet_data :
          /\ internet_data[i].INCTOT < 0
          /\ internet_data[j].INCTOT = 0
          /\ internet_data[k].INCTOT > 0
    /\ \E i, j \in DOMAIN internet_data :
          i # j /\ internet_data[i].INCTOT = internet_data[j].INCTOT
    /\ \A i \in DOMAIN internet_data : ~internet_data[i].INCTOT_BUCKET.isnull

\* the label the fallback band table gives to an income clamped at 0
FallbackBandLabel(income) ==
    IF income <= 0 THEN "No Income"
    ELSE IF income <= 20000 THEN "Very Low"
    ELSE IF income <= 40000 THEN "Low"
    ELSE IF income <= 60000 THEN "Middle"
    ELSE IF income <= 100000 THEN "High"
    ELSE "Very High"

\* C13: when the positive incomes have at least one and fewer than
\* n_quantiles distinct values, create_income_buckets takes the fallback path
\* and every row gets the label of the fallback band table for its income
\* clamped at 0.
C13_QuantileFallback ==
    (Prepared /\ Cardinality(PositiveIncomes) \in 1..(n_quantiles - 1)) =>
        /\ income_buckets.path = "fallback"
        /\ income_buckets.log # <<>>
        /\ \A i \in DOMAIN internet_data :
              /\ ~internet_data[i].INCTOT_BUCKET.isnull
              /\ internet_data[i].INCTOT_BUCKET.v =
                     FallbackBandLabel(internet_data[i].INCTOT)

\* two distinct positive incomes on the two sides of a band edge
C13_Witness ==
    /\ Prepared
    /\ income_buckets.path = "fallback"
    /\ PreparedIncomes = {20000, 20001}
    /\ \E i, j \in DOMAIN internet_data :
          /\ internet_data[i].INCTOT_BUCKET.v = "Very Low"
          /\ internet_data[j].INCTOT_BUCKET.v = "Low"

\* C14: a row gets the label 'No Income' exactly when its income is zero or
\* negative, on whichever path the labels were made; with no positive income
\* every row gets 'No Income'.
C14_NoIncome ==
    Prepared =>
        /\ \A i \in DOMAIN internet_data :
              /\ ~internet_data[i].INCTOT_BUCKET.isnull
              /\ internet_data[i].INCTOT <= 0 <=>
                     internet_data[i].INCTOT_BUCKET.v = "No Income"
        /\ PositiveIncomes = {} =>
              /\ income_buckets.path = "no_income"
              /\ \A i \in DOMAIN internet_data :
                    internet_data[i].INCTOT_BUCKET = Text("No Income")

\* the smallest positive income next to a negative one
C14_Witness ==
    /\ Prepared
    /\ PreparedIncomes = {0 - 500, 1}
    /\ \E i, j \in DOMAIN internet_data :
          /\ internet_data[i].INCTOT < 0
          /\ internet_data[i].INCTOT_BUCKET.v = "No Income"
          /\ internet_data[j].INCTOT = 1
          /\ internet_data[j].INCTOT_BUCKET.v = "Very Low"

\* the row of the fact table a prepared row comes from
FactRow(r) == fact_csv[CHOOSE j \in DOMAIN fact_csv : fact_csv[j].index = r.index]

\* C18: every column the fact table had keeps, in every retained row, the
\* value that was read (AGE and INCTOT too, negative incomes included); the
\* columns added are AGE_BUCKET and INCTOT_BUCKET and no other; the series
\* handed to create_income_buckets is unchanged after the call.
C18_InputsNotMutated ==
    Prepared =>
        /\ \A i \in DOMAIN internet_data :
              /\ \E j \in DOMAIN fact_csv : fact_csv[j].index = internet_data[i].index
              /\ DOMAIN internet_data[i] =
                     DOMAIN FactRow(internet_data[i]) \cup {"AGE_BUCKET", "INCTOT_BUCKET"}
              /\ \A col \in DOMAIN FactRow(internet_data[i]) :
                     internet_data[i][col] = FactRow(internet_data[i])[col]
        /\ Len(income_buckets.income_data) = Len(internet_data)
        /\ \A i \in DOMAIN internet_data :
              income_buckets.income_data[i] = FactRow(internet_data[i]).INCTOT

\* a retained row whose income is negative, after a row that was dropped
C18_Witness ==
    /\ Prepared
    /\ Len(internet_data) < Len(fact_csv)
    /\ \E i \in DOMAIN internet_data :
          /\ internet_data[i].INCTOT < 0
          /\ internet_data[i].INCTOT_BUCKET.v = "No Income"

\* ------------------------------------------------------- pipeline order
BucketColumns == {"AGE_BUCKET", "INCTOT_BUCKET"}
\* every row of the relation has the two bucket columns and a reported
\* access code
Bucketed(rows) ==
    \A i \in DOMAIN rows :
        BucketColumns \subseteq DOMAIN rows[i] /\ rows[i].CINETHH # 9

\* the row r belongs to the group g of the dimension d
InGroup(r, d, g) ==
    IF d \in BucketColumns THEN ~r[d].isnull /\ r[d].v = g
    ELSE upper(d) \in DOMAIN r /\ r[upper(d)] = g

\* every group of the frame has as population estimate the weight of the
\* rows of that group
AggregatedFrom(frame, rows, d) ==
    \A k \in DOMAIN frame.rows :
        frame.rows[k].population_estimate =
            SumOf(SelectSeq(rows, LAMBDA r : InGroup(r, d, frame.rows[k].dimension_value)),
                  "PERWT")

\* C17: in every run of the script the columns AGE_BUCKET and INCTOT_BUCKET
\* are on the fact relation before a dimension is aggregated: a step that adds
\* a result starts with the bucketed, filtered relation, leaves it as it is,
\* and every result held is the aggregation of that one relation.
C17_BucketsBeforeAggregation ==
    [][(program = "script") =>
          /\ pc' # "start" => Bucketed(internet_data')
          /\ analysis_results' # analysis_results =>
                /\ pc # "start"
                /\ Bucketed(internet_data)
                /\ internet_data' = internet_data
          /\ pc' = "prepared" => DOMAIN analysis_results' = {}
          /\ \A d \in DOMAIN analysis_results' :
                AggregatedFrom(analysis_results'[d], internet_data', d)]_vars

\* a run that aggregated all thirteen dimensions, the two derived ones with
\* several groups each, over a relation from which a row had been filtered
C17_Witness ==
    /\ program = "script"
    /\ pc = "finished"
    /\ DOMAIN analysis_results = SeqToSet(dimensions)
    /\ Len(analysis_results["AGE_BUCKET"].rows) >= 2
    /\ Len(analysis_results["INCTOT_BUCKET"].rows) >= 2
    /\ Len(internet_data) < Len(fact_csv)

\* ---------------------------------------------------- weight conservation
\* C21: for every dimension analyze_dimension has aggregated (the coded one
\* as well as AGE_BUCKET and INCTOT_BUCKET) the population estimates of the
\* returned groups add up to the weight of all rows of the prepared relation:
\* every row is counted in one group.
C21_WeightConservation ==
    program = "script" =>
        \A d \in DOMAIN analysis_results :
            SumOf(analysis_results[d].rows, "population_estimate")
                = SumOf(internet_data, "PERWT")

\* ------------------------- schema/create_star_schema.py (the JSON builder)
\* a band (min_val, max_val, label) of a band table
Band(min_val, max_val, label) == [min_val |-> min_val, max_val |-> max_val, label |-> label]

\* lines 74-84
age_groups ==
    <<Band(0, 4, "Under 5"), Band(5, 17, "5-17"), Band(18, 24, "18-24"),
      Band(25, 34, "25-34"), Band(35, 44, "35-44"), Band(45, 54, "45-54"),
      Band(55, 64, "55-64"), Band(65, 74, "65-74"), Band(75, 120, "75+")>>
\* lines 105-114
income_groups ==
    <<Band(0 - 10000000, 0, "Negative or Zero"), Band(1, 9999, "Under $10,000"),
      Band(10000, 24999, "$10,000-$24,999"), Band(25000, 49999, "$25,000-$49,999"),
      Band(50000, 74999, "$50,000-$74,999"), Band(75000, 99999, "$75,000-$99,999"),
      Band(100000, 149999, "$100,000-$149,999"),
      Band(150000, 10000000, "$150,000+")>>
\* lines 140-150
hhincome_groups ==
    <<Band(0 - 10000000, 0, "Negative or Zero"), Band(1, 24999, "Under $25,000"),
      Band(25000, 49999, "$25,000-$49,999"), Band(50000, 74999, "$50,000-$74,999"),
      Band(75000, 99999, "$75,000-$99,999"),
      Band(100000, 149999, "$100,000-$149,999"),
      Band(150000, 199999, "$150,000-$199,999"),
      Band(200000, 10000000, "$200,000+"),
      Band(9999999, 9999999, "N/A or Missing")>>

\* lines 118-122 and 154-158: group starts as 'Unknown'; the first band whose
\* inclusive range holds the value gives the label and ends the loop
group_of(value, groups) ==
    LET hits == {k \in DOMAIN groups :
                    groups[k].min_val <= value /\ value <= groups[k].max_val}
    IN  IF hits = {} THEN "Unknown"
        ELSE groups[CHOOSE k \in hits : \A j \in hits : k <= j].label

\* lines 86-94: one row per age of every band, in band order
RECURSIVE age_data(_)
age_data(k) ==
    IF k > Len(age_groups) THEN <<>>
    ELSE [i \in 1..(age_groups[k].max_val - age_groups[k].min_val + 1) |->
             [value |-> age_groups[k].min_val + i - 1, group |-> age_groups[k].label]]
         \o age_data(k + 1)

\* lines 104 and 116-127, 139 and 153-163: one row per distinct value of the
\* column, ascending, with the label of its band
group_table(df, col, groups) ==
    LET values == SortedInts({df.rows[i][col] : i \in DOMAIN df.rows})
    IN  [i \in DOMAIN values |->
            [value |-> values[i], group |-> group_of(values[i], groups)]]

\* the household incomes an extract holds: band edges, the reserved value
\* 9999999 and values beyond every band; personal incomes are 0 or 150000
HHIncomes ==
    {0 - 10000001, 0 - 10000000, 0, 1, 24999, 25000, 199999, 200000, 9999998,
     9999999, 10000000, 10000001}
GroupLayouts == {<<"AGE", "INCTOT", "HHINCOME">>, <<"AGE", "INCTOT">>, <<"HHINCOME">>}
GroupRow(layout, inctot, hhincome) ==
    [col \in SeqToSet(layout) |->
        IF col = "AGE" THEN 30 ELSE IF col = "INCTOT" THEN inctot ELSE hhincome]
\* the extracts of 0 to MaxRows rows
GroupFrames ==
    {[columns |-> layout,
      rows |-> [i \in DOMAIN vals |-> GroupRow(layout, vals[i][1], vals[i][2])]] :
        layout \in GroupLayouts,
        vals \in SeqsUpTo({0, 150000} \X HHIncomes, MaxRows)}

\* the definitions files: the variables in the order of the file, each with
\* its codes; at most MaxCodes codes in all
JsonCodebooks ==
    UNION {{[i \in DOMAIN names |-> [var_name |-> names[i],
                                      var_info |-> VarInfo(names[i], kl[names[i]])]] :
                kl \in {f \in [SeqToSet(names) -> KeyLists(MaxCodes)] :
                           TotalLen(f, SeqToSet(names)) <= MaxCodes}} :
           names \in {<<>>, <<"STATEFIP">>, <<"EDUC">>, <<"STATEFIP", "EDUC">>,
                      <<"EDUC", "STATEFIP">>}}

\* line 65: f'dim_{var_name.lower()}'
json_dim_file(var_name) ==
    IF var_name = "STATEFIP" THEN "dim_statefip" ELSE "dim_educ"

\* lines 57-62 for one variable: int(code) of every code in turn
json_dim_data(var_info) ==
    LET codes == var_info.codes
    IN  IF \E i \in DOMAIN codes : ~PyInt(codes[i].key).ok
        THEN [exc |-> "ValueError", table |-> <<>>]
        ELSE [exc |-> "none",
              table |-> [i \in DOMAIN codes |->
                            [code |-> PyInt(codes[i].key).n,
                             value |-> codes[i].label]]]

\* lines 53-67 from the i-th variable of the definitions on: the tables
\* written, and the exception that ended the loop
RECURSIVE json_dim_loop(_, _, _)
json_dim_loop(defs, i, files) ==
    IF i > Len(defs) THEN [exc |-> "none", files |-> files]
    ELSE LET r == json_dim_data(defs[i].var_info)
             name == json_dim_file(defs[i].var_name)
         IN  IF r.exc # "none" THEN [exc |-> r.exc, files |-> files]
             ELSE json_dim_loop(defs, i + 1,
                                [f \in DOMAIN files \cup {name} |->
                                    IF f = name THEN r.table ELSE files[f]])

\* StarSchemaBuilder() of the JSON builder
GroupsInit ==
    /\ SchemaIdle
    /\ program = "create_schema_json"
    /\ data_dir = "state_sample"
    /\ groupby_observed = FALSE
    /\ dim_statefip_csv = [exists |-> FALSE, table |-> NoTable]
    /\ StatsIdle

\* lines 41-49: the extract and the definitions file are read
json_load_data ==
    /\ program = "create_schema_json"
    /\ stage = "new"
    /\ \E df \in GroupFrames, defs \in JsonCodebooks :
          /\ fact_df' = df
          /\ ipums_vars' = defs
    /\ stage' = "loaded"
    /\ UNCHANGED <<dim_files, fact_file, console>>
    /\ UNCHANGED stats_vars

\* load_data raises and create_schema reports the error (line 202): the
\* extract cannot be read (line 44), fact_df still None, or the extract is
\* read and the definitions file is missing or malformed (lines 48-49)
json_load_data_raises ==
    /\ program = "create_schema_json"
    /\ stage = "new"
    /\ \/ UNCHANGED fact_df
       \/ \E df \in GroupFrames : fact_df' = df
    /\ console' = <<<<"An error occurred", "load_data">>>>
    /\ stage' = "failed"
    /\ UNCHANGED <<ipums_vars, dim_files, fact_file>>
    /\ UNCHANGED stats_vars

\* lines 51-67; a code that int() rejects ends the run (line 202), the tables
\* written before it stay
json_create_dimension_tables ==
    /\ program = "create_schema_json"
    /\ stage = "loaded"
    /\ LET r == json_dim_loop(ipums_vars, 1, dim_files)
       IN  /\ dim_files' = r.files
           /\ stage' = IF r.exc = "none" THEN "dimensions" ELSE "failed"
           /\ console' = IF r.exc = "none" THEN console
                         ELSE Append(console, <<"An error occurred", r.exc>>)
    /\ UNCHANGED <<fact_df, ipums_vars, fact_file>>
    /\ UNCHANGED stats_vars

\* lines 69-97
create_age_groups ==
    /\ program = "create_schema_json"
    /\ stage = "dimensions"
    /\ dim_files' = IF "AGE" \in SeqToSet(fact_df.columns)
                    THEN dim_files @@ ("dim_age" :> age_data(1)) ELSE dim_files
    /\ stage' = "age_groups"
    /\ UNCHANGED <<fact_df, ipums_vars, fact_file, console>>
    /\ UNCHANGED stats_vars

\* lines 99-132
create_income_groups ==
    /\ program = "create_schema_json"
    /\ stage = "age_groups"
    /\ dim_files' = IF "INCTOT" \in SeqToSet(fact_df.columns)
                    THEN dim_files @@
                         ("dim_income" :> group_table(fact_df, "INCTOT", income_groups))
                    ELSE dim_files
    /\ stage' = "income_groups"
    /\ UNCHANGED <<fact_df, ipums_vars, fact_file, console>>
    /\ UNCHANGED stats_vars

\* lines 134-168
create_household_income_groups ==
    /\ program = "create_schema_json"
    /\ stage = "income_groups"
    /\ dim_files' = IF "HHINCOME" \in SeqToSet(fact_df.columns)
                    THEN dim_files @@
                         ("dim_hhincome" :>
                              group_table(fact_df, "HHINCOME", hhincome_groups))
                    ELSE dim_files
    /\ stage' = "hhincome_groups"
    /\ UNCHANGED <<fact_df, ipums_vars, fact_file, console>>
    /\ UNCHANGED stats_vars

\* lines 170-174: the fact table is written as it was read
json_save_fact_table ==
    /\ program = "create_schema_json"
    /\ stage = "hhincome_groups"
    /\ fact_file' = fact_df
    /\ stage' = "saved"
    /\ UNCHANGED <<fact_df, ipums_vars, dim_files, console>>
    /\ UNCHANGED stats_vars

\* lines 176-188 and 200: every dimension file is read back to count its
\* records, then the run reports its success. A table without rows was
\* written without a header (DataFrame([]) has no columns) and read_csv
\* raises EmptyDataError on it (line 187)
json_print_schema_structure ==
    /\ program = "create_schema_json"
    /\ stage = "saved"
    /\ IF \E f \in DOMAIN dim_files : dim_files[f] = <<>>
       THEN /\ stage' = "failed"
            /\ console' = Append(console, <<"An error occurred", "EmptyDataError">>)
       ELSE /\ stage' = "done"
            /\ console' = Append(console, <<"Star schema created successfully!", "">>)
    /\ UNCHANGED <<fact_df, ipums_vars, dim_files, fact_file>>
    /\ UNCHANGED stats_vars

GroupsNext ==
    \/ json_load_data
    \/ json_load_data_raises
    \/ json_create_dimension_tables
    \/ create_age_groups
    \/ create_income_groups
    \/ create_household_income_groups
    \/ json_save_fact_table
    \/ json_print_schema_structure

GroupsSpec == GroupsInit /\ [][GroupsNext]_vars

\* the value lies in a band of the table
InSomeBand(value, groups) ==
    \E k \in DOMAIN groups : groups[k].min_val <= value /\ value <= groups[k].max_val

\* C22: every label of hhincome_groups is the label of some income value; in
\* dim_hhincome.csv the reserved value 9999999 has the label
\* 'N/A or Missing', and a value has 'Unknown' only when it lies in no band.
\* Stated for the tables written from an extract that holds the reserved
\* value.
C22_EveryBandReachable ==
    (/\ "dim_hhincome" \in DOMAIN dim_files
     /\ \E i \in DOMAIN dim_files["dim_hhincome"] :
           dim_files["dim_hhincome"][i].value = 9999999) =>
        /\ \A i \in DOMAIN dim_files["dim_hhincome"] :
              LET row == dim_files["dim_hhincome"][i]
              IN  /\ row.value = 9999999 => row.group = "N/A or Missing"
                  /\ row.group = "Unknown" => ~InSomeBand(row.value, hhincome_groups)
        /\ \A k \in DOMAIN hhincome_groups :
              \E v \in HHIncomes \cup {50000, 75000, 100000, 150000} :
                  group_of(v, hhincome_groups) = hhincome_groups[k].label

\* ------------------------------------------------ the two aggregators
\* the analyzer holds its filtered relations
AnalyzerLoaded == program = "analyzer" /\ pc \in {"loaded", "analyzed"}

\* the outcome r of calculate_weighted_access_stats has for the group g the
\* percentage calculate_weighted_percentage returns for the rows of g and
\* their weight as population estimate
AgreesOn(r, rows, g) ==
    \E i \in DOMAIN r.rows :
        /\ r.rows[i].dimension_value = g
        /\ r.rows[i].internet_percentage =
               calculate_weighted_percentage(RowsWhere(rows, "STATEFIP", g),
                                             "PERWT", "CINETHH", 1)
        /\ r.rows[i].population_estimate = SumOf(RowsWhere(rows, "STATEFIP", g), "PERWT")
        /\ \A k \in DOMAIN state_stats_df :
              state_stats_df[k].STATEFIP = g =>
                  state_stats_df[k].population_estimate = r.rows[i].population_estimate

\* C23: on the relation filtered of its sentinel rows, for every group with
\* positive total weight, calculate_weighted_access_stats returns the
\* percentage that calculate_weighted_percentage returns for the rows of the
\* group, and the population estimate analyze_by_state computes for it.
C23_AggregatorsAgree ==
    AnalyzerLoaded =>
        \A r \in calculate_weighted_access_stats(valid_internet, "STATEFIP",
                                                  "PERWT", "CINETHH") :
            \A g \in Groups(valid_internet) \ ZeroWeightGroups(valid_internet) :
                AgreesOn(r, valid_internet, g)

\* the same for the relations in which no group has the total weight 0
C23_AgreeWithoutZeroWeight ==
    (AnalyzerLoaded /\ ZeroWeightGroups(valid_internet) = {}) =>
        \A r \in calculate_weighted_access_stats(valid_internet, "STATEFIP",
                                                  "PERWT", "CINETHH") :
            /\ r.exc = "none"
            /\ \A g \in Groups(valid_internet) : AgreesOn(r, valid_internet, g)
====
